---- MODULE Spec2Model ----
(***************************************************************************)
(* Indicator engine, signal fusion and prediction routes of the backend:   *)
(* indicators/calculator.py, models/patchtst_predictor.py, models/         *)
(* lightgbm_classifier.py, models/hybrid_decision.py and api/routes.       *)
(*                                                                         *)
(* Python floats are modelled as exact rationals [num, den] in lowest      *)
(* terms; round(x, k) is round-half-even on the exact value.  Binary       *)
(* floating-point error and overflow to inf are outside the model.         *)
(* A candle's timestamp is never read by this code and is left out.        *)
(***************************************************************************)
EXTENDS Integers, Sequences, FiniteSets, TLC

VARIABLES
    candles,          \* the candle window handed to the core
    indicators,       \* the indicator dict handed to the predictors
    transformer_pred, \* PatchTSTPredictor.predict's return value
    lgbm_pred,        \* LightGBMClassifier.predict's return value
    prediction,       \* HybridPredictor.predict's return value
    pc,               \* position of the caller
    call,             \* a direct call of one IndicatorCalculator method
    ret,              \* and its return value
    risk_level,       \* assess_risk's return value
    warnings,         \* generate_warnings' return value
    response,         \* what the route answers: a status and a body
    predictor,        \* attributes of the module-level HybridPredictor object
    requests,         \* the locals of the requests served side by side
    served            \* the candles and results of the requests answered so far

vars == <<candles, indicators, transformer_pred, lgbm_pred, prediction, pc, call, ret,
          risk_level, warnings, response, predictor, requests, served>>

(***************************************************************************)
(* Python values                                                           *)
(***************************************************************************)
None == [none |-> TRUE]

\* the empty dict {}
EmptyDict == <<>>

Abs(x) == IF x < 0 THEN -x ELSE x

RECURSIVE GCD(_, _)
GCD(a, b) == IF b = 0 THEN a ELSE GCD(b, a % b)

\* n/d with the common divisor g taken out and the sign carried by num
Lowest(n, d, g) ==
    IF d < 0 THEN [num |-> (-n) \div g, den |-> (-d) \div g]
    ELSE [num |-> n \div g, den |-> d \div g]

\* the float n/d (d # 0), in lowest terms with a positive denominator
Rat(n, d) == Lowest(n, d, GCD(Abs(n), Abs(d)))

R(i) == [num |-> i, den |-> 1]

\* what a division by zero leaves behind: it propagates through arithmetic and
\* compares false with everything
NaN == [num |-> 0, den |-> 0]

IsNumber(x) == DOMAIN x = {"num", "den"} /\ x.den > 0

\* a + b over the common denominator l
AddOver(a, b, l) == Rat(a.num * (l \div a.den) + b.num * (l \div b.den), l)

RAdd(a, b) ==
    IF a.den = 0 \/ b.den = 0 THEN NaN
    ELSE IF a.den = 1 /\ b.den = 1 THEN [num |-> a.num + b.num, den |-> 1]
    ELSE AddOver(a, b, (a.den \div GCD(a.den, b.den)) * b.den)

RNeg(a) == [num |-> -a.num, den |-> a.den]

RSub(a, b) == RAdd(a, RNeg(b))

\* a * b with the cross divisors g1 of (a.num, b.den) and g2 of (b.num, a.den) taken out
MulReduced(a, b, g1, g2) ==
    Rat((a.num \div g1) * (b.num \div g2), (a.den \div g2) * (b.den \div g1))

RMul(a, b) ==
    IF a.den = 0 \/ b.den = 0 THEN NaN
    ELSE IF a.den = 1 /\ b.den = 1 THEN [num |-> a.num * b.num, den |-> 1]
    ELSE MulReduced(a, b, GCD(Abs(a.num), b.den), GCD(Abs(b.num), a.den))

RDiv(a, b) ==
    IF b.num = 0 THEN NaN
    ELSE RMul(a, Rat(b.den, b.num))

RLt(a, b) == a.num * b.den < b.num * a.den

RGt(a, b) == RLt(b, a)

RLe(a, b) == ~RLt(b, a)

RGe(a, b) == ~RLt(a, b)

RMin(a, b) == IF RLt(b, a) THEN b ELSE a

RMax(a, b) == IF RLt(a, b) THEN b ELSE a

RAbs(a) == [num |-> Abs(a.num), den |-> a.den]

\* bool(x) of a number or None
Truthy(x) == x # None /\ x.num # 0

\* d.get(k, default)
DictGet(d, k, default) == IF k \in DOMAIN d THEN d[k] ELSE default

Pow10(k) == IF k = 0 THEN 1 ELSE IF k = 1 THEN 10 ELSE IF k = 2 THEN 100
            ELSE IF k = 3 THEN 1000 ELSE 10000

\* k decimal digits of the fraction r/d (0 <= r < d) by long division, the
\* divisor g common to 10 and d taken out at each digit
RECURSIVE FracDigits(_, _, _, _)
RECURSIVE FracDigit(_, _, _, _, _)
FracDigit(acc, r, d, k, g) ==
    FracDigits(acc * 10 + (r * (10 \div g)) \div (d \div g),
               (r * (10 \div g)) % (d \div g), d \div g, k - 1)

FracDigits(acc, r, d, k) ==
    IF k = 0 THEN [q |-> acc, r |-> r, d |-> d]
    ELSE FracDigit(acc, r, d, k, GCD(10, d))

\* fl / 10^ndigits or the next multiple up, whichever is nearer to the value
\* that lies r/d above it; a tie goes to the even one
RoundNearest(fl, r, d, ndigits) ==
    Rat(IF 2 * r < d THEN fl
        ELSE IF 2 * r > d THEN fl + 1
        ELSE IF fl % 2 = 0 THEN fl ELSE fl + 1,
        Pow10(ndigits))

RoundDigits(x, fd, ndigits) ==
    RoundNearest((x.num \div x.den) * Pow10(ndigits) + fd.q, fd.r, fd.d, ndigits)

\* round(x, ndigits): the nearest multiple of 10^-ndigits, ties to even
Round(x, ndigits) ==
    IF x.den = 0 THEN NaN
    ELSE RoundDigits(x, FracDigits(0, x.num % x.den, x.den, ndigits), ndigits)

\* s[-n:] (n > 0) and s[:n] (n >= 0)
LastN(s, n) == IF Len(s) <= n THEN s ELSE SubSeq(s, Len(s) - n + 1, Len(s))

FirstN(s, n) == IF Len(s) <= n THEN s ELSE SubSeq(s, 1, n)

\* sum(s[i:]) added to acc, left to right; a NaN stays a NaN
RECURSIVE SumFrom(_, _, _)
SumFrom(s, i, acc) ==
    IF ~IsNumber(acc) THEN NaN
    ELSE IF i > Len(s) THEN acc
    ELSE SumFrom(s, i + 1, RAdd(acc, s[i]))

RSum(s) == SumFrom(s, 1, R(0))

\* np.mean of a non-empty list
Mean(s) == RDiv(RSum(s), R(Len(s)))

(***************************************************************************)
(* indicators/calculator.py                                                *)
(***************************************************************************)
RsiPeriod == 14

MacdFast == 12

MacdSlow == 26

MacdSignal == 9

EmaPeriods == {9, 20, 50, 200}

SmaPeriods == {20, 50, 200}

\* np.diff
Diff(s) == [i \in 1..(Len(s) - 1) |-> RSub(s[i + 1], s[i])]

\* np.where(changes > 0, changes, 0)
RsiGains(changes) ==
    [i \in DOMAIN changes |-> IF RGt(changes[i], R(0)) THEN changes[i] ELSE R(0)]

\* the losses kept with their sign
RsiLosses_signed(changes) ==
    [i \in DOMAIN changes |-> IF RLt(changes[i], R(0)) THEN changes[i] ELSE R(0)]

\* np.where(changes < 0, -changes, 0)
RsiLosses(changes) ==
    [i \in DOMAIN changes |-> IF RLt(changes[i], R(0)) THEN RNeg(changes[i]) ELSE R(0)]

\* the length test off by one
RsiInsufficient_off_by_one(closes, period) == Len(closes) < period

\* too few closes for one full period of changes
RsiInsufficient(closes, period) == Len(closes) < period + 1

\* 100 without losses, else rs = avg_gain / avg_loss and
\* round(100 - (100 / (1 + rs)), 2)
RsiOfAverages(avg_gain, avg_loss) ==
    IF avg_loss = R(0) THEN R(100)
    ELSE Round(RSub(R(100), RDiv(R(100), RAdd(R(1), RDiv(avg_gain, avg_loss)))), 2)

RsiOfChanges(changes) ==
    RsiOfAverages(Mean(RsiGains(changes)), Mean(RsiLosses(changes)))

calculate_rsi(closes, period) ==
    IF RsiInsufficient(closes, period) THEN R(50)
    ELSE RsiOfChanges(Diff(LastN(closes, period + 1)))

\* for price in data[i:]: ema = (price * multiplier) + (ema * (1 - multiplier))
RECURSIVE EmaLoop(_, _, _, _)
EmaLoop(data, i, ema, multiplier) ==
    IF ~IsNumber(ema) THEN NaN
    ELSE IF i > Len(data) THEN ema
    ELSE EmaLoop(data, i + 1,
                 RAdd(RMul(data[i], multiplier), RMul(ema, RSub(R(1), multiplier))),
                 multiplier)

\* the loop started one point early, on the last point of the seed
_ema_from_seed_point(data, period) ==
    IF Len(data) < period
    THEN IF data # <<>> THEN data[Len(data)] ELSE R(0)
    ELSE EmaLoop(data, period, Mean(FirstN(data, period)), Rat(2, period + 1))

_ema(data, period) ==
    IF Len(data) < period
    THEN IF data # <<>> THEN data[Len(data)] ELSE R(0)
    ELSE EmaLoop(data, period + 1, Mean(FirstN(data, period)), Rat(2, period + 1))

\* the returned dict, histogram = macd_line - signal_line
MacdOfLines(macd_line, signal_line) ==
    [macd      |-> Round(macd_line, 4),
     signal    |-> Round(signal_line, 4),
     histogram |-> Round(RSub(macd_line, signal_line), 4)]

\* signal_line = macd_line * 0.9
MacdOfLine(macd_line) == MacdOfLines(macd_line, RMul(macd_line, Rat(9, 10)))

calculate_macd(closes) ==
    IF Len(closes) < MacdSlow + MacdSignal
    THEN [macd |-> R(0), signal |-> R(0), histogram |-> R(0)]
    ELSE MacdOfLine(RSub(_ema(closes, MacdFast), _ema(closes, MacdSlow)))

calculate_emas(closes) ==
    [period \in {p \in EmaPeriods : Len(closes) >= p} |->
        Round(_ema(closes, period), 4)]

calculate_smas(closes) ==
    [period \in {p \in SmaPeriods : Len(closes) >= p} |->
        Round(Mean(LastN(closes, period)), 4)]

\* the overall mean taken over every volume
VolumeOverall_all(volumes) == Mean(volumes)

\* avg_vol: the mean of the last 20 volumes, of all of them when fewer
VolumeOverall(volumes) ==
    IF Len(volumes) >= 20 THEN Mean(LastN(volumes, 20)) ELSE Mean(volumes)

\* the trend of the ratio and the returned dict
VolumeStats(ratio, recent_vol, avg_vol) ==
    [trend           |-> IF RGt(ratio, Rat(12, 10)) THEN "increasing"
                         ELSE IF RLt(ratio, Rat(8, 10)) THEN "decreasing"
                         ELSE "stable",
     ratio           |-> Round(ratio, 2),
     recent_average  |-> Round(recent_vol, 2),
     overall_average |-> Round(avg_vol, 2)]

\* ratio = recent_vol / avg_vol if avg_vol > 0 else 1.0
VolumeOfMeans(recent_vol, avg_vol) ==
    VolumeStats(IF RGt(avg_vol, R(0)) THEN RDiv(recent_vol, avg_vol) ELSE R(1),
                recent_vol, avg_vol)

analyze_volume(volumes) ==
    IF Len(volumes) < 5 THEN [trend |-> "stable", ratio |-> R(1)]
    ELSE VolumeOfMeans(Mean(LastN(volumes, 5)), VolumeOverall(volumes))

Closes(cs) == [i \in DOMAIN cs |-> R(cs[i].close)]

Volumes(cs) == [i \in DOMAIN cs |-> R(cs[i].volume)]

\* the five indicators of the close and volume series
IndicatorsOf(closes, volumes) ==
    [rsi    |-> calculate_rsi(closes, RsiPeriod),
     macd   |-> calculate_macd(closes),
     ema    |-> calculate_emas(closes),
     sma    |-> calculate_smas(closes),
     volume |-> analyze_volume(volumes)]

calculate_all(cs) ==
    IF cs = <<>> THEN EmptyDict
    ELSE IndicatorsOf(Closes(cs), Volumes(cs))

(***************************************************************************)
(* models/patchtst_predictor.py                                            *)
(***************************************************************************)
PatchTST_neutral_prediction ==
    [direction     |-> "neutral",
     confidence    |-> R(33),
     probabilities |-> [bullish |-> Rat(33, 100),
                        bearish |-> Rat(33, 100),
                        neutral |-> Rat(34, 100)]]

\* 20 for neutral baseline
PatchTST_neutral_baseline == 20

PatchTST_confidence_cap == 90

\* (recent_closes[-1] - recent_closes[0]) / recent_closes[0], 0 when there is
\* one close or the first is 0
MomentumOf(recent_closes) ==
    IF Len(recent_closes) >= 2 /\ recent_closes[1] # R(0)
    THEN RDiv(RSub(recent_closes[Len(recent_closes)], recent_closes[1]),
              recent_closes[1])
    ELSE R(0)

\* momentum over candles[-10:]
PatchTST_momentum(cs) == MomentumOf(Closes(LastN(cs, 10)))

\* macd.get("histogram", 0) if macd else 0
HistogramOf(macd) ==
    IF DOMAIN macd # {} THEN DictGet(macd, "histogram", R(0)) ELSE R(0)

\* the macd histogram both predictors read off the indicator dict
MacdHistogram(ind) == HistogramOf(DictGet(ind, "macd", EmptyDict))

\* sum(1 for c in last_candles if c["close"] > c["open"])
BullishCount(last_candles) ==
    Cardinality({i \in DOMAIN last_candles : last_candles[i].close > last_candles[i].open})

\* the if / elif chains on momentum, rsi and macd_histogram
PatchTST_bullish_score(momentum, bullish_count, rsi, macd_histogram) ==
    (IF RGt(momentum, Rat(1, 100)) THEN 25 ELSE 0)
    + bullish_count * 8
    + (IF Truthy(rsi) /\ RLt(rsi, R(30)) THEN 15
       ELSE IF Truthy(rsi) /\ RGt(rsi, R(70)) THEN 0
       ELSE IF Truthy(rsi) /\ RGt(rsi, R(50)) THEN 5
       ELSE 0)
    + (IF RGt(macd_histogram, R(0)) THEN 10 ELSE 0)

PatchTST_bearish_score(momentum, bearish_count, rsi, macd_histogram) ==
    (IF ~RGt(momentum, Rat(1, 100)) /\ RLt(momentum, Rat(-1, 100)) THEN 25 ELSE 0)
    + bearish_count * 8
    + (IF Truthy(rsi) /\ RLt(rsi, R(30)) THEN 0
       ELSE IF Truthy(rsi) /\ RGt(rsi, R(70)) THEN 15
       ELSE IF Truthy(rsi) /\ ~RGt(rsi, R(50)) THEN 5
       ELSE 0)
    + (IF ~RGt(macd_histogram, R(0)) /\ RLt(macd_histogram, R(0)) THEN 10 ELSE 0)

PatchTST_scores_of(momentum, bullish_count, last_count, rsi, macd_histogram) ==
    [bullish_score |->
        PatchTST_bullish_score(momentum, bullish_count, rsi, macd_histogram),
     bearish_score |->
        PatchTST_bearish_score(momentum, last_count - bullish_count, rsi, macd_histogram)]

\* the two accumulators of _analyze_patterns
PatchTST_scores(cs, ind) ==
    PatchTST_scores_of(PatchTST_momentum(cs), BullishCount(LastN(cs, 5)),
                       Len(LastN(cs, 5)), DictGet(ind, "rsi", R(50)), MacdHistogram(ind))

\* the total without the neutral baseline
PatchTST_total_score_no_baseline(s) == s.bullish_score + s.bearish_score

PatchTST_total_score(s) ==
    s.bullish_score + s.bearish_score + PatchTST_neutral_baseline

\* a side asserted only above one half
PatchTST_direction_above_half(bullish_prob, bearish_prob) ==
    IF RGt(bullish_prob, bearish_prob) /\ RGt(bullish_prob, Rat(5, 10))
    THEN "bullish"
    ELSE IF RGt(bearish_prob, bullish_prob) /\ RGt(bearish_prob, Rat(5, 10))
    THEN "bearish"
    ELSE "neutral"

PatchTST_direction(bullish_prob, bearish_prob) ==
    IF RGt(bullish_prob, bearish_prob) /\ RGt(bullish_prob, Rat(4, 10))
    THEN "bullish"
    ELSE IF RGt(bearish_prob, bullish_prob) /\ RGt(bearish_prob, Rat(4, 10))
    THEN "bearish"
    ELSE "neutral"

PatchTST_confidence(direction, bullish_prob, bearish_prob, neutral_prob) ==
    IF direction = "bullish" THEN RMul(bullish_prob, R(100))
    ELSE IF direction = "bearish" THEN RMul(bearish_prob, R(100))
    ELSE RMul(neutral_prob, R(100))

\* the returned dict
PatchTST_result(direction, bullish_prob, bearish_prob, neutral_prob) ==
    [direction     |-> direction,
     confidence    |->
        RMin(PatchTST_confidence(direction, bullish_prob, bearish_prob, neutral_prob),
             R(PatchTST_confidence_cap)),
     probabilities |-> [bullish |-> bullish_prob,
                        bearish |-> bearish_prob,
                        neutral |-> RMax(neutral_prob, Rat(1, 10))]]

\* neutral_prob = 1 - bullish_prob - bearish_prob
PatchTST_of_probs(bullish_prob, bearish_prob) ==
    PatchTST_result(PatchTST_direction(bullish_prob, bearish_prob),
                    bullish_prob, bearish_prob,
                    RSub(RSub(R(1), bullish_prob), bearish_prob))

\* normalize to probabilities
PatchTST_of_scores(s, total_score) ==
    PatchTST_of_probs(Rat(s.bullish_score, total_score), Rat(s.bearish_score, total_score))

PatchTST_normalize(s) == PatchTST_of_scores(s, PatchTST_total_score(s))

PatchTST_analyze_patterns(cs, ind) ==
    IF Len(cs) < 5 THEN PatchTST_neutral_prediction
    ELSE PatchTST_normalize(PatchTST_scores(cs, ind))

\* _extract_features builds an array that _analyze_patterns never reads
PatchTST_predict(cs, ind) == PatchTST_analyze_patterns(cs, ind)

(***************************************************************************)
(* models/lightgbm_classifier.py                                           *)
(***************************************************************************)
LightGBM_neutral_prediction ==
    [direction     |-> "neutral",
     confidence    |-> R(33),
     probabilities |-> [bullish |-> Rat(33, 100),
                        bearish |-> Rat(33, 100),
                        neutral |-> Rat(34, 100)]]

\* 3 for neutral baseline
LightGBM_neutral_baseline == 3

LightGBM_confidence_cap == 85

LightGBM_min_signals == 4

\* indicators.get("rsi", 50) / 100 if indicators.get("rsi") else 0.5
RsiFeature(ind) ==
    IF Truthy(DictGet(ind, "rsi", None))
    THEN RDiv(DictGet(ind, "rsi", R(50)), R(100))
    ELSE Rat(1, 2)

\* ema.get(20, 0) if ema else 0
Ema20Of(ema) == IF DOMAIN ema # {} THEN DictGet(ema, 20, R(0)) ELSE R(0)

\* the relative change without its zero guard
RelativeTo_unguarded(value, base) == RDiv(RSub(value, base), base)

\* (value - base) / base if base else 0: ema_trend, momentum_5, momentum_10
RelativeTo(value, base) ==
    IF Truthy(base) THEN RDiv(RSub(value, base), base) ELSE R(0)

\* last volume / avg_volume if avg_volume else 1
VolumeRatioOf(last_volume, avg_volume) ==
    IF Truthy(avg_volume) THEN RDiv(last_volume, avg_volume) ELSE R(1)

\* (high_low - body_size) / high_low if high_low else 0
WickRatioOf(high_low, body_size) ==
    IF Truthy(high_low) THEN RDiv(RSub(high_low, body_size), high_low) ELSE R(0)

\* momentum_5 needs len(closes) >= 5
Momentum5Of(closes) ==
    IF Len(closes) >= 5
    THEN RelativeTo(closes[Len(closes)], closes[Len(closes) - 4])
    ELSE R(0)

LightGBM_features_of(last_candle, volumes, closes, ind) ==
    [rsi          |-> RsiFeature(ind),
     macd_hist    |-> MacdHistogram(ind),
     ema_trend    |-> RelativeTo(R(last_candle.close),
                                 Ema20Of(DictGet(ind, "ema", EmptyDict))),
     volume_ratio |-> VolumeRatioOf(R(last_candle.volume),
                                    IF volumes # <<>> THEN Mean(volumes) ELSE R(1)),
     body_size    |-> RAbs(R(last_candle.close - last_candle.open)),
     wick_ratio   |-> WickRatioOf(R(last_candle.high - last_candle.low),
                                  RAbs(R(last_candle.close - last_candle.open))),
     momentum_5   |-> Momentum5Of(closes),
     momentum_10  |-> RelativeTo(closes[Len(closes)], closes[1])]

\* prev_candles = candles[-10:]
LightGBM_extract_features(cs, ind) ==
    LightGBM_features_of(cs[Len(cs)], Volumes(LastN(cs, 10)), Closes(LastN(cs, 10)), ind)

LightGBM_bullish_signals(f) ==
    (IF RLt(f.rsi, Rat(3, 10)) THEN 2
     ELSE IF RGt(f.rsi, Rat(7, 10)) THEN 0
     ELSE IF RGt(f.rsi, Rat(5, 10)) THEN 1
     ELSE 0)
    + (IF RGt(f.macd_hist, R(0)) THEN 1 ELSE 0)
    + (IF RGt(f.ema_trend, Rat(2, 100)) THEN 2
       ELSE IF RLt(f.ema_trend, Rat(-2, 100)) THEN 0
       ELSE IF RGt(f.ema_trend, R(0)) THEN 1
       ELSE 0)
    + (IF RGt(f.volume_ratio, Rat(12, 10)) /\ RGt(f.momentum_5, R(0)) THEN 1 ELSE 0)
    + (IF RGt(f.momentum_5, Rat(2, 100)) THEN 2 ELSE 0)
    + (IF RGt(f.momentum_10, Rat(3, 100)) THEN 1 ELSE 0)

LightGBM_bearish_signals(f) ==
    (IF RLt(f.rsi, Rat(3, 10)) THEN 0
     ELSE IF RGt(f.rsi, Rat(7, 10)) THEN 2
     ELSE IF RGt(f.rsi, Rat(5, 10)) THEN 0
     ELSE 1)
    + (IF ~RGt(f.macd_hist, R(0)) /\ RLt(f.macd_hist, R(0)) THEN 1 ELSE 0)
    + (IF RGt(f.ema_trend, Rat(2, 100)) THEN 0
       ELSE IF RLt(f.ema_trend, Rat(-2, 100)) THEN 2
       ELSE IF RGt(f.ema_trend, R(0)) THEN 0
       ELSE 1)
    + (IF RGt(f.volume_ratio, Rat(12, 10)) /\ ~RGt(f.momentum_5, R(0))
          /\ RLt(f.momentum_5, R(0))
       THEN 1 ELSE 0)
    + (IF ~RGt(f.momentum_5, Rat(2, 100)) /\ RLt(f.momentum_5, Rat(-2, 100))
       THEN 2 ELSE 0)
    + (IF ~RGt(f.momentum_10, Rat(3, 100)) /\ RLt(f.momentum_10, Rat(-3, 100))
       THEN 1 ELSE 0)

\* the two counters of _rule_based_prediction
LightGBM_signals(f) ==
    [bullish_signals |-> LightGBM_bullish_signals(f),
     bearish_signals |-> LightGBM_bearish_signals(f)]

\* a direction asserted from three signals on
LightGBM_direction_from_3(s, bullish_prob, bearish_prob) ==
    IF RGt(bullish_prob, bearish_prob) /\ s.bullish_signals >= 3
    THEN "bullish"
    ELSE IF RGt(bearish_prob, bullish_prob) /\ s.bearish_signals >= 3
    THEN "bearish"
    ELSE "neutral"

LightGBM_direction(s, bullish_prob, bearish_prob) ==
    IF RGt(bullish_prob, bearish_prob) /\ s.bullish_signals >= LightGBM_min_signals
    THEN "bullish"
    ELSE IF RGt(bearish_prob, bullish_prob) /\ s.bearish_signals >= LightGBM_min_signals
    THEN "bearish"
    ELSE "neutral"

LightGBM_confidence(direction, bullish_prob, bearish_prob) ==
    IF direction = "bullish"
    THEN RMin(RMul(bullish_prob, R(100)), R(LightGBM_confidence_cap))
    ELSE IF direction = "bearish"
    THEN RMin(RMul(bearish_prob, R(100)), R(LightGBM_confidence_cap))
    ELSE R(50)

\* the returned dict, neutral_prob = 1 - bullish_prob - bearish_prob
LightGBM_result(direction, bullish_prob, bearish_prob) ==
    [direction     |-> direction,
     confidence    |-> LightGBM_confidence(direction, bullish_prob, bearish_prob),
     probabilities |-> [bullish |-> bullish_prob,
                        bearish |-> bearish_prob,
                        neutral |-> RMax(RSub(RSub(R(1), bullish_prob), bearish_prob),
                                         Rat(1, 10))]]

LightGBM_of_probs(s, bullish_prob, bearish_prob) ==
    LightGBM_result(LightGBM_direction(s, bullish_prob, bearish_prob),
                    bullish_prob, bearish_prob)

\* calculate probabilities
LightGBM_of_signals(s, total) ==
    LightGBM_of_probs(s, Rat(s.bullish_signals, total), Rat(s.bearish_signals, total))

LightGBM_normalize(s) ==
    LightGBM_of_signals(s, s.bullish_signals + s.bearish_signals + LightGBM_neutral_baseline)

LightGBM_rule_based_prediction(f) == LightGBM_normalize(LightGBM_signals(f))

\* the short-window test off by one
LightGBM_predict_min4(cs, ind) ==
    IF Len(cs) < 4 THEN LightGBM_neutral_prediction
    ELSE LightGBM_rule_based_prediction(LightGBM_extract_features(cs, ind))

LightGBM_predict(cs, ind) ==
    IF Len(cs) < 5 THEN LightGBM_neutral_prediction
    ELSE LightGBM_rule_based_prediction(LightGBM_extract_features(cs, ind))

(***************************************************************************)
(* models/hybrid_decision.py                                               *)
(***************************************************************************)
\* the attributes __init__ gives the predictor object that predict reads
HybridPredictor_init ==
    [transformer_weight |-> Rat(6, 10), lgbm_weight |-> Rat(4, 10)]

transformer_weight == predictor.transformer_weight

lgbm_weight == predictor.lgbm_weight

Directions == {"bullish", "bearish", "neutral"}

\* result[key] = probs1.get(key, 0.33) * 0.6 + probs2.get(key, 0.33) * 0.4
WeightedSum(probs1, probs2) ==
    [key \in Directions |->
        RAdd(RMul(DictGet(probs1, key, Rat(33, 100)), transformer_weight),
             RMul(DictGet(probs2, key, Rat(33, 100)), lgbm_weight))]

\* {k: v / total for k, v in result.items()}
DividedBy(result, total) == [key \in Directions |-> RDiv(result[key], total)]

\* total = sum(result.values())
Normalized(result) ==
    DividedBy(result, RAdd(RAdd(result["bullish"], result["bearish"]), result["neutral"]))

_weighted_average(probs1, probs2) == Normalized(WeightedSum(probs1, probs2))

\* a neutral classifier counted as agreeing
Hybrid_model_agreement_neutral_ok(tp, lp) ==
    tp.direction = lp.direction \/ lp.direction = "neutral"

Hybrid_model_agreement(tp, lp) == tp.direction = lp.direction

\* the 20-point margin left out
Hybrid_use_transformer_no_margin(transformer_conf, lgbm_conf) ==
    RGt(transformer_conf, R(70)) /\ RGt(transformer_conf, lgbm_conf)

\* the disagreement branch trusts the transformer / the classifier
Hybrid_use_transformer(transformer_conf, lgbm_conf) ==
    RGt(transformer_conf, R(70)) /\ RGt(transformer_conf, RAdd(lgbm_conf, R(20)))

Hybrid_use_lgbm(transformer_conf, lgbm_conf) ==
    RGt(lgbm_conf, R(70)) /\ RGt(lgbm_conf, RAdd(transformer_conf, R(20)))

\* too uncertain - go neutral
Hybrid_neutral_probs ==
    [bullish |-> Rat(33, 100), bearish |-> Rat(33, 100), neutral |-> Rat(34, 100)]

Hybrid_direction(tp, lp) ==
    IF Hybrid_model_agreement(tp, lp) THEN tp.direction
    ELSE IF Hybrid_use_transformer(tp.confidence, lp.confidence) THEN tp.direction
    ELSE IF Hybrid_use_lgbm(tp.confidence, lp.confidence) THEN lp.direction
    ELSE "neutral"

Hybrid_combined_probs(tp, lp) ==
    IF Hybrid_model_agreement(tp, lp)
    THEN _weighted_average(tp.probabilities, lp.probabilities)
    ELSE IF Hybrid_use_transformer(tp.confidence, lp.confidence) THEN tp.probabilities
    ELSE IF Hybrid_use_lgbm(tp.confidence, lp.confidence) THEN lp.probabilities
    ELSE Hybrid_neutral_probs

\* the confidence before the cap
Hybrid_confidence(tp, lp, combined_probs) ==
    IF Hybrid_model_agreement(tp, lp)
    THEN RMax(RAdd(RMul(tp.confidence, transformer_weight),
                   RMul(lp.confidence, lgbm_weight)),
              RMul(combined_probs[tp.direction], R(100)))
    ELSE IF Hybrid_use_transformer(tp.confidence, lp.confidence)
    THEN RMul(tp.confidence, Rat(7, 10))
    ELSE IF Hybrid_use_lgbm(tp.confidence, lp.confidence)
    THEN RMul(lp.confidence, Rat(7, 10))
    ELSE R(40)

\* the confidence treated like a probability: times 100, rounded, no cap
Hybrid_reported_confidence_as_percent(confidence) == Round(RMul(confidence, R(100)), 1)

\* round(min(confidence, 95), 1)
Hybrid_reported_confidence(confidence) == Round(RMin(confidence, R(95)), 1)

\* percentages rounded to whole numbers
Hybrid_reported_probabilities_whole(combined_probs) ==
    [k \in DOMAIN combined_probs |-> Round(RMul(combined_probs[k], R(100)), 0)]

\* {k: round(v * 100, 1) for k, v in combined_probs.items()}
Hybrid_reported_probabilities(combined_probs) ==
    [k \in DOMAIN combined_probs |-> Round(RMul(combined_probs[k], R(100)), 1)]

\* the returned dict
Hybrid_result(tp, lp, combined_probs) ==
    [direction          |-> Hybrid_direction(tp, lp),
     confidence         |-> Hybrid_reported_confidence(Hybrid_confidence(tp, lp, combined_probs)),
     probabilities      |-> Hybrid_reported_probabilities(combined_probs),
     model_agreement    |-> Hybrid_model_agreement(tp, lp),
     transformer_signal |-> tp.direction,
     lgbm_signal        |-> lp.direction]

\* the part of HybridPredictor.predict after the two model calls
Hybrid_fuse(tp, lp) == Hybrid_result(tp, lp, Hybrid_combined_probs(tp, lp))

Hybrid_predict(cs, ind) ==
    Hybrid_fuse(PatchTST_predict(cs, ind), LightGBM_predict(cs, ind))

(***************************************************************************)
(* api/routes/prediction.py                                                *)
(***************************************************************************)
\* the top band opened at 75 instead of 70
assess_risk_low_from_75(p, technical) ==
    IF RGe(DictGet(p, "confidence", R(50)), R(75)) /\ DictGet(p, "model_agreement", TRUE)
    THEN "low"
    ELSE IF RGe(DictGet(p, "confidence", R(50)), R(50)) THEN "medium"
    ELSE "high"

\* confidence = prediction.get("confidence", 50)
\* conflicts = prediction.get("model_agreement", True)
assess_risk(p, technical) ==
    IF RGe(DictGet(p, "confidence", R(50)), R(70)) /\ DictGet(p, "model_agreement", TRUE)
    THEN "low"
    ELSE IF RGe(DictGet(p, "confidence", R(50)), R(50)) THEN "medium"
    ELSE "high"

LowConfidenceWarning ==
    "Low confidence prediction - consider waiting for clearer signals."

ConflictWarning == "ML models show conflicting signals - increased uncertainty."

OverboughtWarning == "RSI indicates overbought conditions - reversal possible."

OversoldWarning == "RSI indicates oversold conditions - reversal possible."

VolumeWarning == "Low volume may not support directional move."

\* warnings.append(text) under a condition
WarnIf(condition, text) == IF condition THEN <<text>> ELSE <<>>

\* if rsi and (rsi > 70 or rsi < 30)
RsiWarnings(rsi) ==
    IF Truthy(rsi) /\ (RGt(rsi, R(70)) \/ RLt(rsi, R(30)))
    THEN <<IF RGt(rsi, R(70)) THEN OverboughtWarning ELSE OversoldWarning>>
    ELSE <<>>

\* vol.get("trend") == "decreasing"
VolumeDecreasing(vol) == "trend" \in DOMAIN vol /\ vol["trend"] = "decreasing"

generate_warnings(p, technical) ==
    WarnIf(RLt(DictGet(p, "confidence", R(50)), R(50)), LowConfidenceWarning)
    \o WarnIf(~DictGet(p, "model_agreement", TRUE), ConflictWarning)
    \o RsiWarnings(DictGet(technical, "rsi", None))
    \o WarnIf(VolumeDecreasing(DictGet(technical, "volume", EmptyDict))
              /\ p["direction"] # "neutral", VolumeWarning)

(***************************************************************************)
(* Inputs                                                                  *)
(***************************************************************************)
Candle(o, h, l, c, v) == [open |-> o, high |-> h, low |-> l, close |-> c, volume |-> v]

Repeat(x, n) == [i \in 1..n |-> x]

RECURSIVE SeqsUpTo(_, _)
SeqsUpTo(S, n) ==
    IF n = 0 THEN {<<>>}
    ELSE LET shorter == SeqsUpTo(S, n - 1)
         IN  shorter \cup {Append(s, x) : s \in shorter, x \in S}

\* longest run of the repeated candle in a window handed to the predictors
MaxMid == 9

\* longest run of the repeated candle, and longest free tail, of a pipeline window
MaxHead == 35

MaxTail == 2

\* candles of windows handed straight to the predictors: rising and falling
\* candles at closes 100, 102 and 106, ordinary and heavy volume
ScorerCandles ==
    {Candle(99, 100, 99, 100, 10),
     Candle(105, 106, 105, 106, 10),
     Candle(101, 102, 101, 102, 20),
     Candle(101, 101, 100, 100, 10),
     Candle(107, 107, 106, 106, 20)}

\* a window opens with nothing or a candle at close 100, runs on one candle and
\* closes with nothing or any candle
ScorerWindows ==
    LET First == {<<>>, <<Candle(99, 100, 99, 100, 10)>>, <<Candle(101, 101, 100, 100, 10)>>}
        Last  == {<<>>} \cup {<<c>> : c \in ScorerCandles}
    IN  {f \o Repeat(m, j) \o l :
            f \in First, m \in ScorerCandles, j \in 0..MaxMid, l \in Last}

Macd(h) == [macd |-> R(10 * h), signal |-> R(9 * h), histogram |-> R(h)]

\* indicator dicts handed straight to the predictors
IndicatorSets ==
    {EmptyDict}
    \cup {[rsi |-> R(r)] : r \in {0, 25, 50, 60, 75}}
    \cup {[rsi |-> R(r), macd |-> Macd(h), ema |-> [p \in {20} |-> R(e)]] :
            r \in {0, 25, 50, 60, 75}, h \in {-1, 0, 1}, e \in {90, 100, 110}}

\* candles of pipeline windows: an all-zero candle, rising candles at closes
\* 20 and 21, a falling candle at close 20
PipelineCandles ==
    {Candle(0, 0, 0, 0, 0),
     Candle(19, 20, 19, 20, 10),
     Candle(20, 21, 20, 21, 30),
     Candle(21, 21, 20, 20, 10)}

PipelineWindows ==
    {Repeat(h, j) \o t :
        h \in PipelineCandles, j \in 0..MaxHead, t \in SeqsUpTo(PipelineCandles, MaxTail)}

(***************************************************************************)
(* The core pipeline: calculate_all, HybridPredictor.predict, assess_risk   *)
(* and generate_warnings                                                   *)
(***************************************************************************)
Init ==
    /\ candles \in PipelineWindows
    /\ indicators = None
    /\ transformer_pred = None
    /\ lgbm_pred = None
    /\ prediction = None
    /\ pc = "indicators"
    /\ call = None
    /\ ret = None
    /\ risk_level = None
    /\ warnings = None
    /\ response = None
    /\ predictor = HybridPredictor_init
    /\ requests = <<>>
    /\ served = {}

CalculateAll ==
    /\ pc = "indicators"
    /\ indicators' = calculate_all(candles)
    /\ pc' = "predict"
    /\ UNCHANGED <<candles, transformer_pred, lgbm_pred, prediction, call, ret,
                   risk_level, warnings, response, predictor, requests, served>>

HybridPredict ==
    /\ pc = "predict"
    /\ transformer_pred' = PatchTST_predict(candles, indicators)
    /\ lgbm_pred' = LightGBM_predict(candles, indicators)
    /\ prediction' = Hybrid_fuse(transformer_pred', lgbm_pred')
    /\ pc' = "done"
    /\ UNCHANGED <<candles, indicators, call, ret,
                   risk_level, warnings, response, predictor, requests, served>>

\* risk_level = assess_risk(prediction_result, tech_analysis)
AssessRisk ==
    /\ pc = "done"
    /\ risk_level' = assess_risk(prediction, indicators)
    /\ pc' = "assessed"
    /\ UNCHANGED <<candles, indicators, transformer_pred, lgbm_pred, prediction, call, ret,
                   warnings, response, predictor, requests, served>>

\* warnings = generate_warnings(prediction_result, tech_analysis)
GenerateWarnings ==
    /\ pc = "assessed"
    /\ warnings' = generate_warnings(prediction, indicators)
    /\ pc' = "warned"
    /\ UNCHANGED <<candles, indicators, transformer_pred, lgbm_pred, prediction, call, ret,
                   risk_level, response, predictor, requests, served>>

Next == CalculateAll \/ HybridPredict \/ AssessRisk \/ GenerateWarnings

Spec == Init /\ [][Next]_vars

(***************************************************************************)
(* HybridPredictor.predict called with any indicator dict                  *)
(***************************************************************************)
InitScorers ==
    /\ candles \in ScorerWindows
    /\ indicators \in IndicatorSets
    /\ transformer_pred = None
    /\ lgbm_pred = None
    /\ prediction = None
    /\ pc = "predict"
    /\ call = None
    /\ ret = None
    /\ risk_level = None
    /\ warnings = None
    /\ response = None
    /\ predictor = HybridPredictor_init
    /\ requests = <<>>
    /\ served = {}

NextScorers == HybridPredict

SpecScorers == InitScorers /\ [][NextScorers]_vars

(***************************************************************************)
(* IndicatorCalculator methods called on their own                         *)
(***************************************************************************)
\* longest runs of the three values of a series a..a b..b c..c
MaxRunA == 2

MaxRunB == 15

MaxRunC == 5

\* longest series, and largest period, of a direct _ema call
MaxEmaLen == 4

MaxEmaPeriod == 5

SeriesValues == {-10, 0, 10, 20}

RunSeries ==
    {Repeat(R(a), i) \o Repeat(R(b), j) \o Repeat(R(c), l) :
        a \in SeriesValues, b \in SeriesValues, c \in SeriesValues,
        i \in 0..MaxRunA, j \in 0..MaxRunB, l \in 0..MaxRunC}

EmaSeries == SeqsUpTo({R(v) : v \in SeriesValues}, MaxEmaLen)

Calls ==
    {[op |-> "calculate_rsi", data |-> d, period |-> RsiPeriod] : d \in RunSeries}
    \cup {[op |-> "analyze_volume", data |-> d, period |-> 0] : d \in RunSeries}
    \cup {[op |-> "_ema", data |-> d, period |-> p] : d \in EmaSeries, p \in 1..MaxEmaPeriod}

InitIndicators ==
    /\ call \in Calls
    /\ ret = None
    /\ pc = "call"
    /\ candles = <<>>
    /\ indicators = None
    /\ transformer_pred = None
    /\ lgbm_pred = None
    /\ prediction = None
    /\ risk_level = None
    /\ warnings = None
    /\ response = None
    /\ predictor = HybridPredictor_init
    /\ requests = <<>>
    /\ served = {}

CallRsi ==
    /\ pc = "call"
    /\ call.op = "calculate_rsi"
    /\ ret' = calculate_rsi(call.data, call.period)
    /\ pc' = "returned"
    /\ UNCHANGED <<candles, indicators, transformer_pred, lgbm_pred, prediction, call,
                   risk_level, warnings, response, predictor, requests, served>>

CallAnalyzeVolume ==
    /\ pc = "call"
    /\ call.op = "analyze_volume"
    /\ ret' = analyze_volume(call.data)
    /\ pc' = "returned"
    /\ UNCHANGED <<candles, indicators, transformer_pred, lgbm_pred, prediction, call,
                   risk_level, warnings, response, predictor, requests, served>>

CallEma ==
    /\ pc = "call"
    /\ call.op = "_ema"
    /\ ret' = _ema(call.data, call.period)
    /\ pc' = "returned"
    /\ UNCHANGED <<candles, indicators, transformer_pred, lgbm_pred, prediction, call,
                   risk_level, warnings, response, predictor, requests, served>>

NextIndicators == CallRsi \/ CallAnalyzeVolume \/ CallEma

SpecIndicators == InitIndicators /\ [][NextIndicators]_vars

(***************************************************************************)
(* The fused prediction rated and annotated: HybridPredictor.predict,      *)
(* then assess_risk, then generate_warnings                                *)
(***************************************************************************)
\* indicator dicts with an RSI at and around the notice thresholds and a
\* volume analysis of every trend
InsightIndicatorSets ==
    {EmptyDict}
    \cup {[rsi |-> R(r)] : r \in {0, 50}}
    \cup {[rsi |-> R(r), macd |-> Macd(h),
           volume |-> [trend |-> t, ratio |-> R(1)]] :
            r \in {0, 25, 30, 50, 70, 75, 100}, h \in {-1, 1},
            t \in {"increasing", "decreasing", "stable"}}

\* the windows of five candles or more that open with a rising candle
InsightWindows ==
    {w \in ScorerWindows : Len(w) >= 5 /\ w[1] = Candle(99, 100, 99, 100, 10)}

InitInsight ==
    /\ candles \in InsightWindows
    /\ indicators \in InsightIndicatorSets
    /\ transformer_pred = None
    /\ lgbm_pred = None
    /\ prediction = None
    /\ pc = "predict"
    /\ call = None
    /\ ret = None
    /\ risk_level = None
    /\ warnings = None
    /\ response = None
    /\ predictor = HybridPredictor_init
    /\ requests = <<>>
    /\ served = {}

NextInsight == HybridPredict \/ AssessRisk \/ GenerateWarnings

SpecInsight == InitInsight /\ [][NextInsight]_vars

(***************************************************************************)
(* Requests served side by side on the module-level calculator and         *)
(* predictor objects.  Every core step of a request is a step of its own,  *)
(* which allows more interleavings than the event loop does.               *)
(***************************************************************************)
\* most requests in flight at once
MaxInFlight == 2

\* five candles falling to 106 and one falling to 100, on which the two models
\* agree, and six rising candles, on which they do not
RequestWindows ==
    {Repeat(Candle(107, 107, 106, 106, 20), 5) \o <<Candle(101, 101, 100, 100, 10)>>,
     Repeat(Candle(99, 100, 99, 100, 10), 4)
        \o <<Candle(101, 102, 101, 102, 20), Candle(105, 106, 105, 106, 10)>>}

\* the locals of predict_next_candle; sent is the candle list as the client
\* sent it, candles the list object the steps are handed
RequestAt(cs, position) ==
    [sent             |-> cs,
     candles          |-> cs,
     indicators       |-> None,
     transformer_pred |-> None,
     lgbm_pred        |-> None,
     prediction       |-> None,
     risk_level       |-> None,
     warnings         |-> None,
     pc               |-> position]

NewRequest(cs) == RequestAt(cs, "indicators")

Idle == RequestAt(<<>>, "idle")

\* the results of a request whose core steps have all run
Results(q) ==
    [indicators |-> q.indicators,
     prediction |-> q.prediction,
     risk_level |-> q.risk_level,
     warnings   |-> q.warnings]

InitRequests ==
    /\ requests = [r \in 1..MaxInFlight |-> Idle]
    /\ served = {}
    /\ predictor = HybridPredictor_init
    /\ candles = <<>>
    /\ indicators = None
    /\ transformer_pred = None
    /\ lgbm_pred = None
    /\ prediction = None
    /\ pc = "serving"
    /\ call = None
    /\ ret = None
    /\ risk_level = None
    /\ warnings = None
    /\ response = None

Submit(r) ==
    /\ requests[r].pc = "idle"
    /\ \E cs \in RequestWindows : requests' = [requests EXCEPT ![r] = NewRequest(cs)]
    /\ UNCHANGED <<candles, indicators, transformer_pred, lgbm_pred, prediction, pc, call,
                   ret, risk_level, warnings, response, predictor, served>>

ReqCalculateAll(r) ==
    /\ requests[r].pc = "indicators"
    /\ requests' = [requests EXCEPT
                      ![r].indicators = calculate_all(requests[r].candles),
                      ![r].pc = "predict"]
    /\ UNCHANGED <<candles, indicators, transformer_pred, lgbm_pred, prediction, pc, call,
                   ret, risk_level, warnings, response, predictor, served>>

\* the transformer scorer trimming the request's candle list in place
ReqScorerA_trimming(r) ==
    /\ requests[r].pc \in {"predict", "scoredB"}
    /\ requests' = [requests EXCEPT
                      ![r].transformer_pred =
                          PatchTST_predict(requests[r].candles, requests[r].indicators),
                      ![r].candles = LastN(requests[r].candles, 5),
                      ![r].pc = IF requests[r].pc = "predict" THEN "scoredA" ELSE "fuse"]
    /\ UNCHANGED <<candles, indicators, transformer_pred, lgbm_pred, prediction, pc, call,
                   ret, risk_level, warnings, response, predictor, served>>

\* self.transformer.predict(candles, indicators), before or after the classifier
ReqScorerA(r) ==
    /\ requests[r].pc \in {"predict", "scoredB"}
    /\ requests' = [requests EXCEPT
                      ![r].transformer_pred =
                          PatchTST_predict(requests[r].candles, requests[r].indicators),
                      ![r].pc = IF requests[r].pc = "predict" THEN "scoredA" ELSE "fuse"]
    /\ UNCHANGED <<candles, indicators, transformer_pred, lgbm_pred, prediction, pc, call,
                   ret, risk_level, warnings, response, predictor, served>>

\* self.lgbm.predict(candles, indicators), before or after the transformer
ReqScorerB(r) ==
    /\ requests[r].pc \in {"predict", "scoredA"}
    /\ requests' = [requests EXCEPT
                      ![r].lgbm_pred =
                          LightGBM_predict(requests[r].candles, requests[r].indicators),
                      ![r].pc = IF requests[r].pc = "predict" THEN "scoredB" ELSE "fuse"]
    /\ UNCHANGED <<candles, indicators, transformer_pred, lgbm_pred, prediction, pc, call,
                   ret, risk_level, warnings, response, predictor, served>>

\* the fusion shifting the predictor's weights towards the transformer
ReqFuse_adapting(r) ==
    /\ requests[r].pc = "fuse"
    /\ requests' = [requests EXCEPT
                      ![r].prediction =
                          Hybrid_fuse(requests[r].transformer_pred, requests[r].lgbm_pred),
                      ![r].pc = "done"]
    /\ predictor' = [transformer_weight |-> Rat(9, 10), lgbm_weight |-> Rat(1, 10)]
    /\ UNCHANGED <<candles, indicators, transformer_pred, lgbm_pred, prediction, pc, call,
                   ret, risk_level, warnings, response, served>>

ReqFuse(r) ==
    /\ requests[r].pc = "fuse"
    /\ requests' = [requests EXCEPT
                      ![r].prediction =
                          Hybrid_fuse(requests[r].transformer_pred, requests[r].lgbm_pred),
                      ![r].pc = "done"]
    /\ UNCHANGED <<candles, indicators, transformer_pred, lgbm_pred, prediction, pc, call,
                   ret, risk_level, warnings, response, predictor, served>>

ReqAssessRisk(r) ==
    /\ requests[r].pc = "done"
    /\ requests' = [requests EXCEPT
                      ![r].risk_level =
                          assess_risk(requests[r].prediction, requests[r].indicators),
                      ![r].pc = "assessed"]
    /\ UNCHANGED <<candles, indicators, transformer_pred, lgbm_pred, prediction, pc, call,
                   ret, risk_level, warnings, response, predictor, served>>

ReqGenerateWarnings(r) ==
    /\ requests[r].pc = "assessed"
    /\ requests' = [requests EXCEPT
                      ![r].warnings =
                          generate_warnings(requests[r].prediction, requests[r].indicators),
                      ![r].pc = "warned"]
    /\ UNCHANGED <<candles, indicators, transformer_pred, lgbm_pred, prediction, pc, call,
                   ret, risk_level, warnings, response, predictor, served>>

\* the request leaves with its results
Answer(r) ==
    /\ requests[r].pc = "warned"
    /\ served' = served \cup {[sent |-> requests[r].sent, results |-> Results(requests[r])]}
    /\ requests' = [requests EXCEPT ![r] = Idle]
    /\ UNCHANGED <<candles, indicators, transformer_pred, lgbm_pred, prediction, pc, call,
                   ret, risk_level, warnings, response, predictor>>

NextRequests ==
    \/ \E r \in DOMAIN requests : Submit(r)
    \/ \E r \in DOMAIN requests : ReqCalculateAll(r)
    \/ \E r \in DOMAIN requests : ReqScorerA(r)
    \/ \E r \in DOMAIN requests : ReqScorerB(r)
    \/ \E r \in DOMAIN requests : ReqFuse(r)
    \/ \E r \in DOMAIN requests : ReqAssessRisk(r)
    \/ \E r \in DOMAIN requests : ReqGenerateWarnings(r)
    \/ \E r \in DOMAIN requests : Answer(r)

SpecRequests == InitRequests /\ [][NextRequests]_vars

(***************************************************************************)
(* The routes: POST /predict (predict_next_candle) and POST /analyze       *)
(* (analyze_chart), from the validated request to the answer               *)
(***************************************************************************)
\* the fields a validated ChartDataRequest carries
ChartDataRequest_fields == {"symbol", "timeframe", "candles", "indicators"}

\* the parameters of ExplanationGenerator.generate
generate_parameters == {"symbol", "prediction", "technical", "sentiment"}

\* the keywords predict_next_candle passes to generate
generate_keywords == {"symbol", "prediction", "technical", "api_key"}

\* raise HTTPException(status_code=..., detail=...)
HTTPException(status_code, detail) ==
    [exception |-> "HTTPException", status_code |-> status_code, detail |-> detail]

AttributeError(name) == [exception |-> "AttributeError", name |-> name]

TypeError(names) == [exception |-> "TypeError", names |-> names]

\* except Exception as e: raise HTTPException(status_code=500, detail=str(e))
InternalServerError(e) == HTTPException(500, [str |-> e])

\* what evaluating request.gemini_api_key and binding generate's keywords
\* raises: None when the call goes through
ExplainRaises ==
    IF "gemini_api_key" \notin ChartDataRequest_fields THEN AttributeError("gemini_api_key")
    ELSE IF ~(generate_keywords \subseteq generate_parameters)
    THEN TypeError(generate_keywords \ generate_parameters)
    ELSE None

\* generate returns the remote model's text, or the rule-based text when no
\* key is configured or the remote call fails
Explanations == {"gemini", "rule_based"}

\* return InsightResponse(...)
InsightResponse(p, technical, explanation, risk, notices) ==
    [status_code |-> 200,
     prediction  |-> [direction     |-> p.direction,
                      confidence    |-> p.confidence,
                      probabilities |-> p.probabilities],
     technical_analysis |-> technical,
     explanation |-> explanation,
     risk_level  |-> risk,
     warnings    |-> notices]

\* candle lists of schema-valid requests: any length from 0
RouteWindows == {w \in PipelineWindows : Len(w) <= 7}

InitRoute ==
    /\ candles \in RouteWindows
    /\ pc \in {"analyze_chart", "predict_next_candle"}
    /\ indicators = None
    /\ transformer_pred = None
    /\ lgbm_pred = None
    /\ prediction = None
    /\ call = None
    /\ ret = None
    /\ risk_level = None
    /\ warnings = None
    /\ response = None
    /\ predictor = HybridPredictor_init
    /\ requests = <<>>
    /\ served = {}

\* return await predict_next_candle(request)
AnalyzeChart ==
    /\ pc = "analyze_chart"
    /\ pc' = "predict_next_candle"
    /\ UNCHANGED <<candles, indicators, transformer_pred, lgbm_pred, prediction, call, ret,
                   risk_level, warnings, response, predictor, requests, served>>

\* the length test inside the try block: the HTTPException it raises is an
\* Exception, so the handler's except clause catches it
CheckCandles ==
    /\ pc = "predict_next_candle"
    /\ IF Len(candles) < 5
       THEN /\ response' = InternalServerError(
                   HTTPException(400, "At least 5 candles required for prediction"))
            /\ pc' = "responded"
       ELSE /\ pc' = "indicators"
            /\ UNCHANGED response
    /\ UNCHANGED <<candles, indicators, transformer_pred, lgbm_pred, prediction, call, ret,
                   risk_level, warnings, predictor, requests, served>>

\* the explanation call and everything after it
ExplainAndRespond ==
    /\ pc = "done"
    /\ IF ExplainRaises # None
       THEN /\ response' = InternalServerError(ExplainRaises)
            /\ UNCHANGED <<risk_level, warnings>>
       ELSE /\ risk_level' = assess_risk(prediction, indicators)
            /\ warnings' = generate_warnings(prediction, indicators)
            /\ \E explanation \in Explanations :
                  response' = InsightResponse(prediction, indicators, explanation,
                                              risk_level', warnings')
    /\ pc' = "responded"
    /\ UNCHANGED <<candles, indicators, transformer_pred, lgbm_pred, prediction, call, ret,
                   predictor, requests, served>>

NextRoute ==
    AnalyzeChart \/ CheckCandles \/ CalculateAll \/ HybridPredict \/ ExplainAndRespond

SpecRoute == InitRoute /\ [][NextRoute]_vars

(***************************************************************************)
(* Properties                                                              *)
(***************************************************************************)
Predicted == pc = "done"

InUnit(x) == RGe(x, R(0)) /\ RLe(x, R(1))

ProbabilitySum(p) == RAdd(RAdd(p["bullish"], p["bearish"]), p["neutral"])

\* the reported probabilities of one scorer output lie in [0,1] and sum to 1 +- 1e-6
ProbabilitiesOk(pred) ==
    /\ \A k \in Directions : InUnit(pred.probabilities[k])
    /\ RLe(RAbs(RSub(ProbabilitySum(pred.probabilities), R(1))), Rat(1, 1000000))

\* C1: for every candle window (fewer than 5 candles included) and every
\* indicator dict with rsi in [0,100], the three probabilities reported by
\* PatchTSTPredictor.predict and by LightGBMClassifier.predict each lie in [0,1]
\* and sum to 1.0 within 1e-6.
C1_ScorerProbabilities ==
    Predicted => ProbabilitiesOk(transformer_pred) /\ ProbabilitiesOk(lgbm_pred)

\* a full window on which both scorers pile up signals, so that the neutral
\* share is at its smallest
C1_Witness ==
    /\ Predicted
    /\ Len(candles) >= 5
    /\ RLt(transformer_pred.probabilities["neutral"], Rat(2, 10))
    /\ RLe(lgbm_pred.probabilities["neutral"], Rat(3, 10))

\* C2: the confidence returned by HybridPredictor.predict lies in [0,95] in all
\* three fusion branches.
C2_FusedConfidenceRange ==
    Predicted => RGe(prediction.confidence, R(0)) /\ RLe(prediction.confidence, R(95))

\* the agreement branch at its most confident
C2_Witness ==
    /\ Predicted
    /\ prediction.model_agreement
    /\ RGt(prediction.confidence, R(75))

\* C3: the three output probabilities of HybridPredictor.predict (percent, one
\* decimal) sum to 100 within 0.2.
C3_FusedProbabilitySum ==
    Predicted =>
        RLe(RAbs(RSub(ProbabilitySum(prediction.probabilities), R(100))), Rat(2, 10))

\* the renormalized weighted average, with a rounded sum that is not exactly 100
C3_Witness ==
    /\ Predicted
    /\ prediction.model_agreement
    /\ Len(candles) >= 5
    /\ ProbabilitySum(prediction.probabilities) # R(100)

NeutralTriple ==
    [direction     |-> "neutral",
     confidence    |-> R(33),
     probabilities |-> [bullish |-> Rat(33, 100),
                        bearish |-> Rat(33, 100),
                        neutral |-> Rat(34, 100)]]

\* C4: with fewer than 5 candles both scorers return direction neutral,
\* confidence 33 and probabilities {0.33, 0.33, 0.34}, whatever the indicators.
C4_ShortWindowNeutral ==
    Predicted /\ Len(candles) < 5 =>
        transformer_pred = NeutralTriple /\ lgbm_pred = NeutralTriple

\* four candles and an indicator dict that would otherwise score bullish
C4_Witness ==
    /\ Predicted
    /\ Len(candles) = 4
    /\ DOMAIN indicators # {}
    /\ DictGet(indicators, "rsi", R(50)) = R(25)
    /\ MacdHistogram(indicators) = R(1)

\* C5: model_agreement is true exactly when the two scorers' directions are
\* equal; when they are equal the fused direction is that direction; and the
\* output carries each scorer's own direction.
C5_AgreementAndSignals ==
    Predicted =>
        /\ prediction.model_agreement <=>
              transformer_pred.direction = lgbm_pred.direction
        /\ transformer_pred.direction = lgbm_pred.direction =>
              prediction.direction = transformer_pred.direction
        /\ prediction.transformer_signal = transformer_pred.direction
        /\ prediction.lgbm_signal = lgbm_pred.direction

\* both scorers bullish on a full window
C5_Witness ==
    /\ Predicted
    /\ Len(candles) >= 5
    /\ transformer_pred.direction = "bullish"
    /\ lgbm_pred.direction = "bullish"

PercentOf(probs) == [k \in Directions |-> Round(RMul(probs[k], R(100)), 1)]

C6_WitnessClassifierAdopted ==
    /\ Predicted
    /\ transformer_pred.direction # lgbm_pred.direction
    /\ prediction.direction = lgbm_pred.direction
    /\ prediction.direction # "neutral"

\* neither adopted
C6_WitnessForcedNeutral ==
    /\ Predicted
    /\ transformer_pred.direction # lgbm_pred.direction
    /\ transformer_pred.direction # "neutral"
    /\ lgbm_pred.direction # "neutral"
    /\ prediction.direction = "neutral"

\* the closes' successive rises (up = TRUE) or falls over the last 14 steps
RsiSteps(closes, up) ==
    LET n == Len(closes)
    IN  [k \in 1..14 |->
            IF up THEN RMax(RSub(closes[n - 14 + k], closes[n - 15 + k]), R(0))
            ELSE RMax(RSub(closes[n - 15 + k], closes[n - 14 + k]), R(0))]

\* 100 when the average loss is 0, otherwise 100 - 100/(1 + avg_gain/avg_loss)
\* to 2 decimals, for at least 15 closes
RsiFormula(closes) ==
    LET avg_gain == RDiv(RSum(RsiSteps(closes, TRUE)), R(14))
        avg_loss == RDiv(RSum(RsiSteps(closes, FALSE)), R(14))
    IN  IF avg_loss = R(0) THEN R(100)
        ELSE Round(RSub(R(100),
                        RDiv(R(100), RAdd(R(1), RDiv(avg_gain, avg_loss)))), 2)

\* C7: for every non-empty candle sequence, the rsi of the indicator set that
\* IndicatorCalculator.calculate_all returns lies in [0,100]: it is 50.0 for
\* fewer than 15 closes, 100.0 when the average loss is 0, and otherwise
\* 100 - 100/(1 + avg_gain/avg_loss) (to 2 decimals).
C7_RsiRange ==
    (pc \in {"predict", "done"} /\ candles # <<>>) =>
        LET rsi    == indicators.rsi
            closes == Closes(candles)
        IN  /\ IsNumber(rsi)
            /\ RGe(rsi, R(0))
            /\ RLe(rsi, R(100))
            /\ Len(closes) < 15 => rsi = R(50)
            /\ Len(closes) >= 15 => rsi = RsiFormula(closes)

\* calculate_all has returned an rsi from the formula, strictly inside the range
C7_Witness ==
    /\ pc \in {"predict", "done"}
    /\ Len(candles) >= 15
    /\ RGt(indicators.rsi, R(0))
    /\ RLt(indicators.rsi, R(100))
    /\ indicators.rsi # R(50)

\* C8: calculate_rsi with period 14 returns exactly 50.0 for every close
\* series of fewer than 15 values, whatever the closes are.
C8_RsiFallback ==
    (pc = "returned" /\ call.op = "calculate_rsi" /\ call.period = 14
        /\ Len(call.data) < 15) => ret = R(50)

\* calculate_rsi has returned for 14 closes that are not all equal
C8_Witness ==
    /\ pc = "returned"
    /\ call.op = "calculate_rsi"
    /\ call.period = 14
    /\ Len(call.data) = 14
    /\ \E i \in 1..13 : call.data[i] # call.data[i + 1]
    /\ ret = R(50)

\* mean of the last 5 volumes
VolumeRecent(volumes) ==
    RDiv(RSum(SubSeq(volumes, Len(volumes) - 4, Len(volumes))), R(5))

\* mean of the last 20 volumes, or of all when fewer than 20
VolumeOverallMean(volumes) ==
    LET n == Len(volumes)
        w == IF n >= 20 THEN SubSeq(volumes, n - 19, n) ELSE volumes
    IN  RDiv(RSum(w), R(Len(w)))

\* increasing iff ratio > 1.2, decreasing iff ratio < 0.8, stable otherwise
VolumeTrend(ratio) ==
    IF RGt(ratio, Rat(12, 10)) THEN "increasing"
    ELSE IF RLt(ratio, Rat(8, 10)) THEN "decreasing"
    ELSE "stable"

\* what analyze_volume is to return for ratio, the ratio before rounding
VolumeResultIs(volumes, ratio) ==
    /\ ret.ratio = Round(ratio, 2)
    /\ ret.trend = VolumeTrend(ratio)
    /\ ret.recent_average = Round(VolumeRecent(volumes), 2)
    /\ ret.overall_average = Round(VolumeOverallMean(volumes), 2)

FifteenTensFiveTwenties == Repeat(R(10), 15) \o Repeat(R(20), 5)

\* C9 as stated: analyze_volume returns {trend: stable, ratio: 1.0} for fewer
\* than 5 volumes; otherwise ratio = recent/overall, 1.0 when overall is 0,
\* and the trend follows the 1.2 / 0.8 thresholds.
C9_VolumeRatioOnlyZeroGuarded ==
    (pc = "returned" /\ call.op = "analyze_volume") =>
        IF Len(call.data) < 5
        THEN ret = [trend |-> "stable", ratio |-> R(1)]
        ELSE LET recent  == VolumeRecent(call.data)
                 overall == VolumeOverallMean(call.data)
             IN  VolumeResultIs(call.data,
                                IF overall = R(0) THEN R(1) ELSE RDiv(recent, overall))

\* C9: analyze_volume returns {trend: stable, ratio: 1.0} for fewer than 5
\* volumes; otherwise, with recent the mean of the last 5 volumes and overall
\* the mean of the last 20 (or of all when fewer than 20), ratio is
\* recent/overall when overall is positive and 1.0 when overall is 0 or
\* negative; the trend is increasing iff ratio > 1.2, decreasing iff
\* ratio < 0.8, stable otherwise, and the ratio is reported to 2 decimals.
\* Fifteen volumes of 10 followed by five of 20 give ratio 1.6, increasing.
C9_AnalyzeVolume ==
    (pc = "returned" /\ call.op = "analyze_volume") =>
        /\ IF Len(call.data) < 5
           THEN ret = [trend |-> "stable", ratio |-> R(1)]
           ELSE LET recent  == VolumeRecent(call.data)
                    overall == VolumeOverallMean(call.data)
                IN  VolumeResultIs(call.data,
                                   IF RGt(overall, R(0)) THEN RDiv(recent, overall)
                                   ELSE R(1))
        /\ call.data = FifteenTensFiveTwenties =>
            ret.ratio = Rat(16, 10) /\ ret.trend = "increasing"

\* analyze_volume has returned for fifteen volumes of 10 followed by five of 20
C9_Witness ==
    /\ pc = "returned"
    /\ call.op = "analyze_volume"
    /\ call.data = FifteenTensFiveTwenties
    /\ ret.ratio = Rat(16, 10)

\* analyze_volume has returned for volumes whose overall mean is negative and
\* differs from the recent mean
C9_WitnessNegativeOverall ==
    /\ pc = "returned"
    /\ call.op = "analyze_volume"
    /\ Len(call.data) >= 5
    /\ RLt(VolumeOverallMean(call.data), R(0))
    /\ VolumeRecent(call.data) # VolumeOverallMean(call.data)

\* the EMA of the first n points: the mean of the first `period` points when
\* n = period, else price*m + ema*(1-m) on the EMA of the first n-1 points
RECURSIVE EmaOfPrefix(_, _, _)
EmaOfPrefix(data, period, n) ==
    LET m == Rat(2, period + 1)
    IN  IF n <= period
        THEN RDiv(RSum(SubSeq(data, 1, period)), R(period))
        ELSE RAdd(RMul(data[n], m),
                  RMul(EmaOfPrefix(data, period, n - 1), RSub(R(1), m)))

\* C10: for every series and every period greater than its length, _ema
\* returns the last close unchanged, and 0 when the series is empty; with at
\* least `period` points it starts from the mean of the first `period` points
\* and applies ema = price*m + ema*(1-m), m = 2/(period+1), to each remaining
\* point in order.
C10_Ema ==
    (pc = "returned" /\ call.op = "_ema") =>
        LET data   == call.data
            period == call.period
        IN  /\ (period > Len(data) /\ data = <<>>) => ret = R(0)
            /\ (period > Len(data) /\ data # <<>>) => ret = data[Len(data)]
            /\ Len(data) >= period => ret = EmaOfPrefix(data, period, Len(data))

\* _ema has run the recurrence once past a seed of two points: (10+20)/2 = 15,
\* then 0 * 2/3 + 15 * 1/3 = 5
C10_Witness ==
    /\ pc = "returned"
    /\ call.op = "_ema"
    /\ call.period = 2
    /\ call.data = <<R(10), R(20), R(0)>>
    /\ ret = R(5)

\* _ema has returned the last close of a series shorter than the period
C10_WitnessShort ==
    /\ pc = "returned"
    /\ call.op = "_ema"
    /\ call.period > Len(call.data)
    /\ call.data # <<>>
    /\ ret = call.data[Len(call.data)]

Assessed == pc \in {"assessed", "warned"}

C11_WitnessMedium ==
    Assessed /\ RLt(prediction.confidence, R(70)) /\ risk_level = "medium"

C11_WitnessHigh == Assessed /\ RLt(prediction.confidence, R(50)) /\ risk_level = "high"

C11_WitnessDisagreement ==
    Assessed /\ ~prediction.model_agreement /\ risk_level = "medium"

Warned == pc = "warned"

\* the notices the rule table asks for, the RSI notice for every rsi supplied
TableWarnings(p, technical) ==
    WarnIf(RLt(p.confidence, R(50)), LowConfidenceWarning)
    \o WarnIf(~p.model_agreement, ConflictWarning)
    \o WarnIf("rsi" \in DOMAIN technical /\ RGt(technical["rsi"], R(70)), OverboughtWarning)
    \o WarnIf("rsi" \in DOMAIN technical /\ RLt(technical["rsi"], R(30)), OversoldWarning)
    \o WarnIf(/\ "volume" \in DOMAIN technical
              /\ technical["volume"].trend = "decreasing"
              /\ p.direction # "neutral", VolumeWarning)

\* C12: for every fused prediction and every indicator set with rsi in [0,100],
\* rsi = 0 included, generate_warnings returns exactly the applicable notices in
\* order: low confidence iff confidence < 50, model disagreement iff the models
\* disagree, overbought iff rsi > 70 or oversold iff rsi < 30, and the volume
\* notice iff the volume trend is decreasing and the direction is not neutral.
C12_WarningsExactlyApplicable ==
    Warned => warnings = TableWarnings(prediction, indicators)

\* the same table holds wherever the rsi supplied is not 0
C12_WarningsUnlessZeroRsi ==
    (Warned /\ ("rsi" \in DOMAIN indicators => indicators["rsi"] # R(0)))
        => warnings = TableWarnings(prediction, indicators)

\* an rsi of 0 draws no oversold notice
C12_ZeroRsiUnnoticed ==
    (Warned /\ "rsi" \in DOMAIN indicators /\ indicators["rsi"] = R(0))
        => \A i \in DOMAIN warnings : warnings[i] # OversoldWarning

C12_WitnessZeroRsi ==
    Warned /\ "rsi" \in DOMAIN indicators /\ indicators["rsi"] = R(0)

\* C13: two runs of the core pipeline on the same candle sequence, served by
\* the same long-lived calculator and predictor objects with any other
\* requests before, between or beside them, end with the same indicator set,
\* fused prediction, risk level and warnings.
C13_RepeatedRunsAgree ==
    /\ \A a \in served : \A b \in served : a.sent = b.sent => a.results = b.results
    /\ \A r \in DOMAIN requests : \A a \in served :
          (requests[r].pc = "warned" /\ requests[r].sent = a.sent)
              => Results(requests[r]) = a.results
    /\ \A r \in DOMAIN requests : \A t \in DOMAIN requests :
          (/\ requests[r].pc = "warned"
           /\ requests[t].pc = "warned"
           /\ requests[r].sent = requests[t].sent)
              => Results(requests[r]) = Results(requests[t])

\* both windows have been answered, with different results, and a further
\* request for one of them has run all its steps
C13_Witness ==
    /\ Cardinality(served) = 2
    /\ \E a \in served : \E b \in served : a.sent # b.sent /\ a.results # b.results
    /\ \E r \in DOMAIN requests : \E a \in served :
          /\ requests[r].pc = "warned"
          /\ requests[r].sent = a.sent
          /\ requests[r].prediction.model_agreement

\* every value of a dict of floats is a number
AllNumbers(d) == \A k \in DOMAIN d : IsNumber(d[k])

IndicatorsAreNumbers(ind) ==
    /\ IsNumber(ind.rsi)
    /\ AllNumbers(ind.macd)
    /\ AllNumbers(ind.ema)
    /\ AllNumbers(ind.sma)
    /\ ind.volume.trend \in {"increasing", "decreasing", "stable"}
    /\ IsNumber(ind.volume.ratio)

PredictionIsNumbers(p) ==
    /\ p.direction \in Directions
    /\ IsNumber(p.confidence)
    /\ AllNumbers(p.probabilities)

\* the zero denominators of the classifier's features and their defaults
FeatureDefaults(f, last_candle, volumes, closes, ind) ==
    /\ AllNumbers(f)
    /\ ("ema" \notin DOMAIN ind \/ 20 \notin DOMAIN ind.ema \/ ind.ema[20] = R(0))
          => f.ema_trend = R(0)
    /\ RSum(volumes) = R(0) => f.volume_ratio = R(1)
    /\ last_candle.high = last_candle.low => f.wick_ratio = R(0)
    /\ closes[Len(closes) - 4] = R(0) => f.momentum_5 = R(0)
    /\ closes[1] = R(0) => f.momentum_10 = R(0)

\* the zero denominators of the indicators and their defaults
IndicatorDefaults(ind, closes, volumes) ==
    /\ (Len(closes) >= 15
        /\ \A i \in (Len(closes) - 13)..Len(closes) : RGe(closes[i], closes[i - 1]))
          => ind.rsi = R(100)
    /\ (Len(volumes) >= 5 /\ RLe(RSum(LastN(volumes, 20)), R(0)))
          => ind.volume.ratio = R(1) /\ ind.volume.trend = "stable"

\* the total the fused probabilities are divided by
FusionTotal(probs1, probs2) ==
    RAdd(RAdd(WeightedSum(probs1, probs2)["bullish"], WeightedSum(probs1, probs2)["bearish"]),
         WeightedSum(probs1, probs2)["neutral"])

\* C14: on every candle window of length 0 upward, all-zero and flat windows
\* included, no step of the core pipeline divides by zero or leaves a value
\* undefined: every number calculate_all, the two scorers and the fusion
\* produce is a number, every zero denominator (RSI average loss, overall
\* volume, momentum bases, ema20, average volume, candle range) gives its
\* default, the fusion never divides by a zero total, and assess_risk and
\* generate_warnings return a rating and a list of notices.
C14_NoDivisionByZero ==
    /\ (pc # "indicators" /\ candles = <<>>) => indicators = EmptyDict
    /\ (pc # "indicators" /\ candles # <<>>) =>
          /\ IndicatorsAreNumbers(indicators)
          /\ IndicatorDefaults(indicators, Closes(candles), Volumes(candles))
    /\ (pc # "indicators" /\ Len(candles) >= 5) =>
          /\ IsNumber(PatchTST_momentum(candles))
          /\ Closes(LastN(candles, 10))[1] = R(0) => PatchTST_momentum(candles) = R(0)
          /\ FeatureDefaults(LightGBM_extract_features(candles, indicators),
                             candles[Len(candles)], Volumes(LastN(candles, 10)),
                             Closes(LastN(candles, 10)), indicators)
    /\ pc \in {"done", "assessed", "warned"} =>
          /\ PredictionIsNumbers(transformer_pred)
          /\ PredictionIsNumbers(lgbm_pred)
          /\ PredictionIsNumbers(prediction)
          /\ RGt(FusionTotal(transformer_pred.probabilities, lgbm_pred.probabilities), R(0))
    /\ pc \in {"assessed", "warned"} => risk_level \in {"low", "medium", "high"}
    /\ pc = "warned" =>
          \A i \in DOMAIN warnings :
              warnings[i] \in {LowConfidenceWarning, ConflictWarning, OverboughtWarning,
                               OversoldWarning, VolumeWarning}

\* twenty or more all-zero candles through the whole pipeline
C14_Witness ==
    /\ pc = "warned"
    /\ Len(candles) >= 20
    /\ \A i \in DOMAIN candles : candles[i] = Candle(0, 0, 0, 0, 0)
    /\ indicators.rsi = R(100)
    /\ indicators.volume.ratio = R(1)

C14_WitnessEmpty == pc = "warned" /\ candles = <<>> /\ prediction.direction = "neutral"

\* prices after a run of zero closes: the momentum bases are zero
C14_WitnessZeroBase ==
    /\ pc = "warned"
    /\ Len(candles) >= 10
    /\ candles[Len(candles) - 9].close = 0
    /\ candles[Len(candles) - 4].close = 0
    /\ candles[Len(candles)].close # 0

Responded == pc = "responded"

\* C15: a request with fewer than 5 candles is answered with status 400 and
\* detail 'At least 5 candles required for prediction', on either route, and
\* no indicator, scorer, fusion or explanation step has run for it.
C15_ShortRequestRejected400 ==
    (Responded /\ Len(candles) < 5) =>
        /\ response.status_code = 400
        /\ response.detail = "At least 5 candles required for prediction"
        /\ indicators = None
        /\ prediction = None

\* what the handler answers instead: status 500 around the 400 it raised
C15_ShortRequestAnswered500 ==
    (Responded /\ Len(candles) < 5) =>
        /\ response =
              InternalServerError(
                  HTTPException(400, "At least 5 candles required for prediction"))
        /\ indicators = None
        /\ transformer_pred = None
        /\ lgbm_pred = None
        /\ prediction = None

C15_WitnessShort == Responded /\ Len(candles) < 5

\* C16: a schema-valid request with at least 5 candles runs the indicators,
\* then the fusion, then the explanation call, and is answered with an
\* InsightResponse carrying the fused direction, confidence and probabilities,
\* the risk level and the warnings; it never ends in status 500.
C16_ValidRequestAnswered ==
    (Responded /\ Len(candles) >= 5) =>
        /\ response.status_code # 500
        /\ response.status_code = 200
        /\ response.prediction.direction = prediction.direction
        /\ response.prediction.confidence = prediction.confidence
        /\ response.prediction.probabilities = prediction.probabilities
        /\ response.risk_level = assess_risk(prediction, indicators)
        /\ response.warnings = generate_warnings(prediction, indicators)
        /\ response.explanation \in Explanations

\* what the handler answers instead: the indicators and the fusion have run,
\* the explanation call raises on request.gemini_api_key, and the answer is
\* status 500 with no risk level and no warnings
C16_ValidRequestAnswered500 ==
    (Responded /\ Len(candles) >= 5) =>
        /\ indicators = calculate_all(candles)
        /\ prediction = Hybrid_predict(candles, indicators)
        /\ response = InternalServerError(AttributeError("gemini_api_key"))
        /\ risk_level = None
        /\ warnings = None

C16_WitnessValid == Responded /\ Len(candles) >= 5 /\ prediction # None

\* what the core steps return when run on their own, in the order of the code
AloneFused(ind, tp, lp, p) ==
    [indicators       |-> ind,
     transformer_pred |-> tp,
     lgbm_pred        |-> lp,
     prediction       |-> p,
     risk_level       |-> assess_risk(p, ind),
     warnings         |-> generate_warnings(p, ind)]

AloneScored(ind, tp, lp) == AloneFused(ind, tp, lp, Hybrid_fuse(tp, lp))

AloneWith(cs, ind) ==
    AloneScored(ind, PatchTST_predict(cs, ind), LightGBM_predict(cs, ind))

Alone(cs) == AloneWith(cs, calculate_all(cs))

\* what one request holds agrees with its run alone, as far as it has come
AsAlone(q, alone) ==
    /\ q.candles = q.sent
    /\ q.pc # "indicators" => q.indicators = alone.indicators
    /\ q.transformer_pred # None => q.transformer_pred = alone.transformer_pred
    /\ q.lgbm_pred # None => q.lgbm_pred = alone.lgbm_pred
    /\ q.pc \in {"done", "assessed", "warned"} => q.prediction = alone.prediction
    /\ q.pc \in {"assessed", "warned"} => q.risk_level = alone.risk_level
    /\ q.pc = "warned" => q.warnings = alone.warnings

\* C17: however the core steps of concurrent requests interleave, and
\* whichever of the two scorers runs first, every request gets the results it
\* gets when run alone: no step changes the request's candle list, its
\* indicator set or an attribute of the shared predictor.
C17_InterleavingInvisible ==
    /\ predictor = HybridPredictor_init
    /\ \A r \in DOMAIN requests :
          requests[r].pc # "idle" => AsAlone(requests[r], Alone(requests[r].sent))
    /\ \A a \in served : a.results = Results(Alone(a.sent))

\* one request has run the classifier first while the other, on other
\* candles, has run the transformer first
C17_Witness ==
    /\ requests[1].pc = "scoredB"
    /\ requests[2].pc = "scoredA"
    /\ requests[1].sent # requests[2].sent
    /\ served # {}

\* a request that ran the classifier first has all its results
C17_WitnessAnswered ==
    \E a \in served :
        a.results = Results(Alone(a.sent)) /\ a.results.prediction.model_agreement

\* the scoring table of the transformer scorer, the RSI row read for every
\* rsi supplied
TableRsiBullish(rsi) ==
    IF RLt(rsi, R(30)) THEN 15
    ELSE IF RGt(rsi, R(70)) THEN 0
    ELSE IF RGt(rsi, R(50)) THEN 5
    ELSE 0

TableRsiBearish(rsi) ==
    IF RLt(rsi, R(30)) THEN 0
    ELSE IF RGt(rsi, R(70)) THEN 15
    ELSE IF RGt(rsi, R(50)) THEN 0
    ELSE 5

ScorerATable(momentum, bullish_count, rsi, macd_histogram) ==
    [bullish_score |->
        (IF RGt(momentum, Rat(1, 100)) THEN 25 ELSE 0)
        + 8 * bullish_count
        + TableRsiBullish(rsi)
        + (IF RGt(macd_histogram, R(0)) THEN 10 ELSE 0),
     bearish_score |->
        (IF RLt(momentum, Rat(-1, 100)) THEN 25 ELSE 0)
        + 8 * (5 - bullish_count)
        + TableRsiBearish(rsi)
        + (IF RLt(macd_histogram, R(0)) THEN 10 ELSE 0)]

ScorerATableOf(cs, ind) ==
    ScorerATable(PatchTST_momentum(cs), BullishCount(LastN(cs, 5)), ind["rsi"],
                 MacdHistogram(ind))

RsiSupplied == Predicted /\ Len(candles) >= 5 /\ "rsi" \in DOMAIN indicators

\* C18: with 5 or more candles and an rsi in [0,100] supplied, rsi = 0
\* included, the transformer scorer's two accumulators are the sums of the
\* scoring table (25 for momentum beyond 1 percent, 8 per bullish or bearish
\* candle of the last 5, exactly one RSI contribution, 10 for the sign of the
\* MACD histogram), and its output is what those sums normalize to.
C18_ScorerATable ==
    RsiSupplied =>
        /\ PatchTST_scores(candles, indicators) = ScorerATableOf(candles, indicators)
        /\ transformer_pred = PatchTST_normalize(ScorerATableOf(candles, indicators))

\* the table holds wherever the rsi supplied is not 0
C18_ScorerATableUnlessZeroRsi ==
    (RsiSupplied /\ indicators["rsi"] # R(0)) =>
        /\ PatchTST_scores(candles, indicators) = ScorerATableOf(candles, indicators)
        /\ transformer_pred = PatchTST_normalize(ScorerATableOf(candles, indicators))

\* an rsi of 0 adds to neither accumulator: the bullish sum is 15 short
C18_ZeroRsiAddsNothing ==
    (RsiSupplied /\ indicators["rsi"] = R(0)) =>
        /\ PatchTST_scores(candles, indicators).bullish_score + 15
              = ScorerATableOf(candles, indicators).bullish_score
        /\ PatchTST_scores(candles, indicators).bearish_score
              = ScorerATableOf(candles, indicators).bearish_score

C18_WitnessZeroRsi == RsiSupplied /\ indicators["rsi"] = R(0)

\* the probabilities the transformer scorer's accumulators normalize to
ScorerABull(s) == Rat(s.bullish_score, s.bullish_score + s.bearish_score + 20)

ScorerABear(s) == Rat(s.bearish_score, s.bullish_score + s.bearish_score + 20)

ScorerANeutral(s) == Rat(20, s.bullish_score + s.bearish_score + 20)

\* direction and confidence as the rule states them
ScorerARule(pred, p_bull, p_bear, p_neutral) ==
    /\ pred.direction = "bullish" <=> (RGt(p_bull, p_bear) /\ RGt(p_bull, Rat(4, 10)))
    /\ pred.direction = "bearish" <=> (RGt(p_bear, p_bull) /\ RGt(p_bear, Rat(4, 10)))
    /\ pred.direction = "neutral" <=>
          ~(\/ RGt(p_bull, p_bear) /\ RGt(p_bull, Rat(4, 10))
            \/ RGt(p_bear, p_bull) /\ RGt(p_bear, Rat(4, 10)))
    /\ pred.direction = "bullish" => pred.confidence = RMin(RMul(p_bull, R(100)), R(90))
    /\ pred.direction = "bearish" => pred.confidence = RMin(RMul(p_bear, R(100)), R(90))
    /\ pred.direction = "neutral" => pred.confidence = RMin(RMul(p_neutral, R(100)), R(90))
    /\ RGe(pred.confidence, R(0))
    /\ RLe(pred.confidence, R(90))

\* C19: with 5 or more candles the transformer scorer divides its two
\* accumulators by total = bullish + bearish + 20; it says bullish iff p_bull >
\* p_bear and p_bull > 0.4, bearish iff p_bear > p_bull and p_bear > 0.4,
\* neutral otherwise; its confidence is the winning probability times 100 (the
\* raw neutral complement times 100 when neutral) capped at 90, so it lies in
\* [0, 90].
C19_ScorerADirection ==
    (Predicted /\ Len(candles) >= 5) =>
        ScorerARule(transformer_pred,
                    ScorerABull(PatchTST_scores(candles, indicators)),
                    ScorerABear(PatchTST_scores(candles, indicators)),
                    ScorerANeutral(PatchTST_scores(candles, indicators)))

\* a bullish output on a probability between 0.4 and 0.5
C19_Witness ==
    /\ Predicted
    /\ Len(candles) >= 5
    /\ transformer_pred.direction = "bullish"
    /\ RLe(ScorerABull(PatchTST_scores(candles, indicators)), Rat(5, 10))
    /\ transformer_pred.confidence
          = RMul(ScorerABull(PatchTST_scores(candles, indicators)), R(100))

C19_WitnessBearish ==
    /\ Predicted
    /\ transformer_pred.direction = "bearish"
    /\ RLt(transformer_pred.confidence, R(90))

C19_WitnessNeutral ==
    /\ Predicted
    /\ Len(candles) >= 5
    /\ transformer_pred.direction = "neutral"

\* the signal table of the classifier scorer, read with a given rsi_norm
TableRsiNormBullish(rsi_norm) ==
    IF RLt(rsi_norm, Rat(3, 10)) THEN 2
    ELSE IF RGt(rsi_norm, Rat(7, 10)) THEN 0
    ELSE IF RGt(rsi_norm, Rat(5, 10)) THEN 1
    ELSE 0

TableRsiNormBearish(rsi_norm) ==
    IF RLt(rsi_norm, Rat(3, 10)) THEN 0
    ELSE IF RGt(rsi_norm, Rat(7, 10)) THEN 2
    ELSE IF RGt(rsi_norm, Rat(5, 10)) THEN 0
    ELSE 1

ScorerBTable(rsi_norm, f) ==
    [bullish_signals |->
        TableRsiNormBullish(rsi_norm)
        + (IF RGt(f.macd_hist, R(0)) THEN 1 ELSE 0)
        + (IF RGt(f.ema_trend, Rat(2, 100)) THEN 2
           ELSE IF RLt(f.ema_trend, Rat(-2, 100)) THEN 0
           ELSE IF RGt(f.ema_trend, R(0)) THEN 1
           ELSE 0)
        + (IF RGt(f.volume_ratio, Rat(12, 10)) /\ RGt(f.momentum_5, R(0)) THEN 1 ELSE 0)
        + (IF RGt(f.momentum_5, Rat(2, 100)) THEN 2 ELSE 0)
        + (IF RGt(f.momentum_10, Rat(3, 100)) THEN 1 ELSE 0),
     bearish_signals |->
        TableRsiNormBearish(rsi_norm)
        + (IF RLt(f.macd_hist, R(0)) THEN 1 ELSE 0)
        + (IF RGt(f.ema_trend, Rat(2, 100)) THEN 0
           ELSE IF RLt(f.ema_trend, Rat(-2, 100)) THEN 2
           ELSE IF RGt(f.ema_trend, R(0)) THEN 0
           ELSE 1)
        + (IF RGt(f.volume_ratio, Rat(12, 10)) /\ RLt(f.momentum_5, R(0)) THEN 1 ELSE 0)
        + (IF RLt(f.momentum_5, Rat(-2, 100)) THEN 2 ELSE 0)
        + (IF RLt(f.momentum_10, Rat(-3, 100)) THEN 1 ELSE 0)]

\* rsi / 100 for an rsi supplied, 0.5 for an rsi absent
TableRsiNorm(ind) ==
    IF "rsi" \in DOMAIN ind THEN RDiv(ind["rsi"], R(100)) ELSE Rat(1, 2)

SameNumber(a, b) == a.num * b.den = b.num * a.den

Ema20MissingOrZero(ind) ==
    \/ "ema" \notin DOMAIN ind
    \/ 20 \notin DOMAIN ind["ema"]
    \/ ind["ema"][20].num = 0

ScorerBFollowsTable(f, ind) ==
    /\ SameNumber(f.rsi, TableRsiNorm(ind))
    /\ Ema20MissingOrZero(ind) => f.ema_trend = R(0)
    /\ LightGBM_signals(f) = ScorerBTable(TableRsiNorm(ind), f)
    /\ lgbm_pred = LightGBM_normalize(ScorerBTable(TableRsiNorm(ind), f))

Scored == Predicted /\ Len(candles) >= 5

\* C20: with 5 or more candles the classifier scorer uses rsi_norm = rsi / 100
\* for every rsi supplied, rsi = 0 included (0.5 only when rsi is absent), and
\* its two counters are the sums of the signal table: 2 or 1 for rsi_norm, 1
\* for the sign of the MACD histogram, 2 or 1 for ema_trend (0 when ema20 is
\* missing or zero), 1 for the sign of momentum_5 under a volume ratio above
\* 1.2, 2 for momentum_5 beyond 2 percent, 1 for momentum_10 beyond 3 percent.
C20_ScorerBTable ==
    Scored =>
        ScorerBFollowsTable(LightGBM_extract_features(candles, indicators), indicators)

\* the table holds wherever the rsi supplied is not 0, and where rsi is absent
C20_ScorerBTableUnlessZeroRsi ==
    (Scored /\ ~("rsi" \in DOMAIN indicators /\ indicators["rsi"] = R(0))) =>
        ScorerBFollowsTable(LightGBM_extract_features(candles, indicators), indicators)

\* an rsi of 0 is read as 0.5: one bearish signal in place of two bullish ones
C20_ZeroRsiReadAsHalf ==
    (RsiSupplied /\ indicators["rsi"] = R(0)) =>
        /\ LightGBM_extract_features(candles, indicators).rsi = Rat(1, 2)
        /\ LightGBM_signals(LightGBM_extract_features(candles, indicators)).bullish_signals + 2
              = ScorerBTable(R(0), LightGBM_extract_features(candles, indicators)).bullish_signals
        /\ LightGBM_signals(LightGBM_extract_features(candles, indicators)).bearish_signals
              = ScorerBTable(R(0), LightGBM_extract_features(candles, indicators)).bearish_signals + 1

\* an rsi of 0 turns an output the table would make bullish into another one
C20_WitnessZeroRsi ==
    /\ RsiSupplied
    /\ indicators["rsi"] = R(0)
    /\ lgbm_pred.direction # "bullish"
    /\ LightGBM_normalize(ScorerBTable(R(0), LightGBM_extract_features(candles, indicators))).direction
          = "bullish"

\* the table read for an rsi that is below 30 and not 0: two bullish signals
C20_WitnessTable ==
    /\ RsiSupplied
    /\ indicators["rsi"] # R(0)
    /\ RLt(indicators["rsi"], R(30))
    /\ lgbm_pred.direction = "bullish"

\* the probabilities the classifier scorer's counters normalize to
ScorerBBull(s) == Rat(s.bullish_signals, s.bullish_signals + s.bearish_signals + 3)

ScorerBBear(s) == Rat(s.bearish_signals, s.bullish_signals + s.bearish_signals + 3)

ScorerBRule(pred, s, p_bull, p_bear) ==
    /\ pred.direction = "bullish" <=> (RGt(p_bull, p_bear) /\ s.bullish_signals >= 4)
    /\ pred.direction = "bearish" <=> (RGt(p_bear, p_bull) /\ s.bearish_signals >= 4)
    /\ pred.direction \in {"bullish", "bearish", "neutral"}
    /\ pred.direction = "bullish" =>
           SameNumber(pred.confidence, RMin(RMul(p_bull, R(100)), R(85)))
    /\ pred.direction = "bearish" =>
           SameNumber(pred.confidence, RMin(RMul(p_bear, R(100)), R(85)))
    /\ pred.direction = "neutral" => pred.confidence = R(50)
    /\ RGe(pred.confidence, R(0))
    /\ RLe(pred.confidence, R(85))

ScorerBSignals == LightGBM_signals(LightGBM_extract_features(candles, indicators))

\* C21: with 5 or more candles and total = bullish + bearish + 3, the
\* classifier scorer returns bullish iff bullish/total > bearish/total and the
\* bullish count is at least 4, bearish iff the same holds of the bearish
\* side, and neutral with confidence exactly 50 otherwise; an asserted
\* direction has confidence = 100 times the winning probability capped at 85,
\* so the confidence always lies in [0, 85].
C21_ScorerBDirection ==
    Scored =>
        ScorerBRule(lgbm_pred, ScorerBSignals,
                    ScorerBBull(ScorerBSignals), ScorerBBear(ScorerBSignals))

\* a side that leads with fewer than 4 signals is not asserted
C21_Witness ==
    /\ Scored
    /\ ScorerBSignals.bullish_signals = 3
    /\ ScorerBSignals.bullish_signals > ScorerBSignals.bearish_signals
    /\ lgbm_pred.direction = "neutral"
    /\ lgbm_pred.confidence = R(50)

\* a bullish output on exactly 4 signals
C21_WitnessBullish ==
    /\ Scored
    /\ ScorerBSignals.bullish_signals = 4
    /\ lgbm_pred.direction = "bullish"
    /\ SameNumber(lgbm_pred.confidence, RMul(ScorerBBull(ScorerBSignals), R(100)))

C21_WitnessBearish ==
    /\ Scored
    /\ ScorerBSignals.bearish_signals >= 4
    /\ lgbm_pred.direction = "bearish"
    /\ SameNumber(lgbm_pred.confidence, RMul(ScorerBBear(ScorerBSignals), R(100)))

\* the largest confidence an asserted direction reaches
C21_WitnessHighest ==
    /\ Scored
    /\ lgbm_pred.direction # "neutral"
    /\ RGe(lgbm_pred.confidence, R(70))

====
